---- MODULE Spec2Model ----
(***************************************************************************)
(* The pipenode probe agent.  The repository holds five stand-alone        *)
(* scripts, each a complete agent (the two files concatenate them):        *)
(*   "esm"   src/main.js 1-142            fetch, async getToken            *)
(*   "cjs"   src/main.js 144-290          fetch, loadToken, setInterval    *)
(*   "sched" src/unnamed/part_000 1-223   axios, node-schedule, reconnect  *)
(*   "json"  src/unnamed/part_000 225-412 fetch, token.json, updatePoints  *)
(*   "proxy" src/unnamed/part_000 414-639 SOCKS proxies, Promise.all       *)
(* The model runs one of them, chosen in Init.  Every asynchronous         *)
(* function is cut at its awaits: one action is the code that runs between *)
(* two suspension points, and the network's answers are the inputs.        *)
(***************************************************************************)
EXTENDS Integers, Sequences, FiniteSets, TLC

Scripts == {"esm", "cjs", "sched", "json", "proxy"}

\* ------------------------------------------------------------------ bounds
MaxNodes == 2       \* longest node list GET /nodes answers with
MaxBeats == 1       \* heartbeat invocations in flight at once
MaxRetries == 1     \* pending setTimeout(runNodeTests, 5000) timers
MaxRounds == 2      \* runNodeTests invocations in flight at once
MaxTries == 6       \* heartbeat attempts one failed heartbeat may set off

\* ------------------------------------------------------- program constants
Unreachable == -1
NODE_TEST_INTERVAL == 1800000
maxAttempts == 5
timeout == 5000

\* Date.now() - start of a probe that was answered
Latencies == {0, 50}

\* when the request of a probe settles, in ms after the probe started: a
\* latency, or after the timeout
Times == Latencies \cup {6000}
\* what the token file holds
TokenFiles == {"missing", "unreadable", "empty", "valid"}
\* lines of proxies.txt: a usable socks URL, or a line SocksProxyAgent rejects
ProxyLines == {"good", "bad"}

\* the arrays GET /nodes can answer with: up to n nodes, node_id 1, 2, ...
NodeLists(n) == {[i \in 1..k |-> i] : k \in 0..n}

\* ------------------------------------------------------------ credentials
\* A token read yields the token "tok", the empty string "", "null", or
\* "throw" when the read raises.
getToken_esm(file) ==
  IF file \in {"missing", "unreadable"} THEN "null"
  ELSE IF file = "empty" THEN "" ELSE "tok"

loadToken_cjs(file) ==
  IF file \in {"missing", "unreadable"} THEN "null"
  ELSE IF file = "empty" THEN "" ELSE "tok"

\* existsSync guards only the missing file; readFileSync is not in a try
getToken_sched(file) ==
  IF file = "missing" THEN "null"
  ELSE IF file = "unreadable" THEN "throw"
  ELSE IF file = "empty" THEN "null" ELSE "tok"

\* JSON.parse(tokenData).token inside try/catch
getToken_json(file) ==
  IF file = "valid" THEN "tok" ELSE "null"

loadToken_proxy(file) ==
  IF file \in {"missing", "unreadable"} THEN "null"
  ELSE IF file = "empty" THEN "" ELSE "tok"

ReadToken(s, file) ==
  CASE s = "esm" -> getToken_esm(file)
    [] s = "cjs" -> loadToken_cjs(file)
    [] s = "sched" -> getToken_sched(file)
    [] s = "json" -> getToken_json(file)
    [] s = "proxy" -> loadToken_proxy(file)

\* !token
Falsy(t) == t \in {"", "null"}

\* new SocksProxyAgent(proxy) succeeds
AgentBuilds(proxy) == proxy = "good"

\* ------------------------------------------------------------------ probe
\* How the request of one probe ends: "response" an HTTP answer (for axios:
\* a 2xx answer), "httpError" a non-2xx answer given to axios, "error" a
\* rejected request (transport error, DNS failure, connection refused),
\* "timeout" the 5000 ms timer first, "agentError" the proxy agent could not
\* be built.
ProbeEvents == {"response", "httpError", "error", "timeout", "agentError"}

\* a race that waits for the request whatever the timer does
Race_requestDecides(kind, at) == kind

\* Promise.race([fetch(...), timer]) / axios.get(..., {timeout}): the request
\* settles as kind at `at` ms, the timer at `timeout` ms; the first decides.
\* The agent is built before the race is set up.
Race(kind, at) ==
  IF kind = "agentError" THEN kind
  ELSE IF at < timeout THEN kind ELSE "timeout"

\* what is still pending once the race is decided: "request" the loser of
\* the timer (fetch is not aborted), "timer" the setTimeout that lost (it is
\* not cleared), "none" for axios, which aborts the request on its timeout
\* and clears its timer, and when no race was set up
Loser(s, ev) ==
  IF s = "sched" \/ ev = "agentError" THEN "none"
  ELSE IF ev = "timeout" THEN "request" ELSE "timer"

\* fetch resolves on any HTTP answer; Promise.race rejects on error/timeout
testNodeLatency_esm(ev, ms) ==
  IF ev \in {"response", "httpError"}
  THEN [completion |-> "return", value |-> ms, catchReport |-> FALSE]
  ELSE [completion |-> "return", value |-> Unreachable, catchReport |-> TRUE]

\* testNodeLatency of cjs with its try/catch left out: Promise.race's
\* rejection leaves the function
testNodeLatency_cjs_uncaught(ev, ms) ==
  IF ev \in {"response", "httpError"}
  THEN [completion |-> "return", value |-> ms, catchReport |-> FALSE]
  ELSE [completion |-> "throw", value |-> Unreachable, catchReport |-> FALSE]

testNodeLatency_cjs(ev, ms) ==
  IF ev \in {"response", "httpError"}
  THEN [completion |-> "return", value |-> ms, catchReport |-> FALSE]
  ELSE [completion |-> "return", value |-> Unreachable, catchReport |-> FALSE]

\* axios.get rejects on a non-2xx status as on an error or its timeout
testNodeLatency_sched(ev, ms) ==
  IF ev = "response"
  THEN [completion |-> "return", value |-> ms, catchReport |-> FALSE]
  ELSE [completion |-> "return", value |-> Unreachable, catchReport |-> FALSE]

testNodeLatency_json(ev, ms) ==
  IF ev \in {"response", "httpError"}
  THEN [completion |-> "return", value |-> ms, catchReport |-> FALSE]
  ELSE [completion |-> "return", value |-> Unreachable, catchReport |-> TRUE]

\* the agent is built inside the try
testNodeLatency_proxy(ev, ms) ==
  IF ev \in {"response", "httpError"}
  THEN [completion |-> "return", value |-> ms, catchReport |-> FALSE]
  ELSE [completion |-> "return", value |-> Unreachable, catchReport |-> FALSE]

testNodeLatency(s, ev, ms) ==
  CASE s = "esm" -> testNodeLatency_esm(ev, ms)
    [] s = "cjs" -> testNodeLatency_cjs(ev, ms)
    [] s = "sched" -> testNodeLatency_sched(ev, ms)
    [] s = "json" -> testNodeLatency_json(ev, ms)
    [] s = "proxy" -> testNodeLatency_proxy(ev, ms)

\* what the request of a probe can settle as
EventsOf(s, proxy) ==
  IF s = "proxy" /\ ~AgentBuilds(proxy) THEN {"agentError"}
  ELSE IF s = "sched" THEN {"response", "httpError", "error"}
  ELSE {"response", "error"}

\* ----------------------------------------------------------------- report
\* the status computed with >= in place of >
StatusOf_nonneg(latency) == IF latency >= 0 THEN "online" ELSE "offline"

\* status: latency > 0 ? 'online' : 'offline'
StatusOf(latency) == IF latency > 0 THEN "online" ELSE "offline"

\* the body of POST /test
TestPayload(id, latency, t) ==
  [node_id |-> id, latency |-> latency, status |-> StatusOf(latency), token |-> t]

\* How POST /test ends: "ok" 2xx, "rejected" non-2xx, "error" no answer.
PostOutcomes == {"ok", "rejected", "error"}

\* reportTestResult with a catch that raises again
reportTestResult_settled_rethrows(s, outcome) ==
  IF outcome = "error" THEN "throw" ELSE "return"

\* reportTestResult after its POST settled: every branch only logs
reportTestResult_settled(s, outcome) ==
  CASE outcome = "ok" -> "return"          \* console.log('Reported result ...')
    [] outcome = "rejected" -> "return"    \* console.error('Failed to report ...')
    [] outcome = "error" -> "return"       \* catch (error) { console.error(...) }


\* One node of a round.
\*   pc: "wait" not started, "probe" testNodeLatency awaits the request,
\*       "catchPost" the POST made in testNodeLatency's catch is in flight,
\*       "probed" testNodeLatency returned, "post" the POST of the round's
\*       reportTestResult is in flight, "done" the node's iteration ended,
\*       "probeThrew" / "reportThrew" the call raised
\*   ev, lat: how the probe ended and what testNodeLatency returned
\*   probes, calls, posts: testNodeLatency calls, reportTestResult calls and
\*       POST /test requests so far
\*   req: the POST /test in flight
\*   skipped: a reportTestResult call found no token
\*   late: the loser of the probe's race, while it has not settled
NoNode ==
  [pc |-> "wait", ev |-> "none", lat |-> Unreachable, probes |-> 0, calls |-> 0,
   posts |-> 0, req |-> <<>>, proxy |-> "none", skipped |-> FALSE,
   late |-> "none"]

\* reportTestResult(node, latency[, token, proxy]) up to its first network
\* call.  n is the node's record, t the token the caller passes (cjs, proxy).
\* pc' is where the call stands: nextPc when the POST is in flight, "ret"
\* when it returned without one, "reportThrew" when it raised.
reportTestResult(s, file, t, n, id, latency, nextPc) ==
  LET tok == IF s \in {"cjs", "proxy"} THEN t ELSE ReadToken(s, file)
      called == [n EXCEPT !.calls = @ + 1]
  IN IF tok = "throw" THEN [called EXCEPT !.pc = "reportThrew", !.skipped = TRUE]
     ELSE IF s \notin {"cjs", "proxy"} /\ Falsy(tok)
     THEN [called EXCEPT !.pc = "ret", !.skipped = TRUE]
     ELSE IF s = "proxy" /\ ~AgentBuilds(n.proxy)
     THEN [called EXCEPT !.pc = "ret"]
     ELSE [called EXCEPT !.pc = nextPc, !.posts = @ + 1,
                         !.req = <<TestPayload(id, latency, tok)>>]

\* what is kept of a node once its iteration ended
Ended(n) ==
  [NoNode EXCEPT !.pc = "done", !.probes = n.probes, !.calls = n.calls,
                 !.posts = n.posts]

\* a loop body that reports the sentinel whatever the probe returned
LoopReport_default(s, file, t, n, id) ==
  LET m == reportTestResult(s, file, t, n, id, Unreachable, "post")
  IN IF m.pc = "ret" THEN [Ended(m) EXCEPT !.skipped = m.skipped] ELSE m

\* the loop body after `await testNodeLatency(node)`:
\* reportTestResult(node, latency)
LoopReport(s, file, t, n, id) ==
  LET m == reportTestResult(s, file, t, n, id, n.lat, "post")
  IN IF m.pc = "ret" THEN [Ended(m) EXCEPT !.skipped = m.skipped] ELSE m

\* testNodeLatency once its request ended with ev after ms milliseconds, up
\* to the next suspension point.
AfterProbe(s, file, t, n, id, ev, ms) ==
  LET res == testNodeLatency(s, ev, ms)
      probed == [n EXCEPT !.ev = ev, !.lat = res.value, !.pc = "probed",
                          !.late = Loser(s, ev)]
  IN IF res.completion = "throw" THEN [probed EXCEPT !.pc = "probeThrew"]
     ELSE IF res.catchReport
     THEN LET c == reportTestResult(s, file, t, probed, id, Unreachable, "catchPost")
          IN IF c.pc = "ret" THEN [c EXCEPT !.pc = "probed"]
             ELSE IF c.pc = "reportThrew" THEN [c EXCEPT !.pc = "probeThrew"]
             ELSE c
     ELSE probed

\* ------------------------------------------------------------------ state
VARIABLES
  script,     \* which of the five scripts runs
  tokenFile,  \* what the token file holds now
  proxies,    \* the lines of proxies.txt
  cap,        \* the bounds of this run: list length, invocations in flight
  main,       \* the module's top-level code: "load", "prompt", "running"
  armed,      \* the periodic triggers that are set
  eager,      \* the tasks the top-level code invoked itself
  hbStart,    \* startHeartbeat (esm, json): "idle", "reading", "armed", "skipped"
  hbToken,    \* the token startHeartbeat's interval callback closes over
  rounds,     \* the runNodeTests invocations
  retries,    \* pending setTimeout(runNodeTests, 5000) timers (proxy)
  beats,      \* the heartbeat invocations
  recon,      \* the reconnect invocations (sched)
  polls,      \* the point-balance timer callbacks (proxy)
  ledger      \* per node uptime/downtime accumulators the process keeps

vars == <<script, tokenFile, proxies, cap, main, armed, eager, hbStart, hbToken,
          rounds, retries, beats, recon, polls, ledger>>

\* One runNodeTests invocation.
\*   pc: "idle", "fetch" GET /nodes in flight, "nodes" the per-node work,
\*       "done" it logged 'All node tests completed.', "returned" the early
\*       return on an empty list (proxy), "aborted" its catch ran, "skipped"
\*       no token (or no proxy), "rejected" it raised
\*   failed: what the catch caught: "fetch" or "node"
\*   noCred: a reportTestResult call of the round found no token
\*   trouble: a probe of the round failed, or a POST /test of it did
\*   cb: the json interval callback around it: "round", "points", "end"
\*   before: the ledger when the round started
NoRound ==
  [pc |-> "idle", trigger |-> "none", token |-> "none", nodes |-> <<>>,
   node |-> [i \in 1..MaxNodes |-> NoNode], noCred |-> FALSE, failed |-> "none",
   trouble |-> FALSE, cb |-> "none", before |-> <<>>]

NoBeat ==
  [pc |-> "idle", trigger |-> "none", token |-> "none", during |-> FALSE, req |-> <<>>,
   tries |-> 0, geo |-> "none"]

NoRecon == [pc |-> "idle", attempts |-> 0, beat |-> 0, tries |-> 0]

InitWith(c) ==
  /\ script \in Scripts
  /\ tokenFile \in TokenFiles
  /\ proxies \in (IF script = "proxy" THEN SUBSET ProxyLines ELSE {{}})
  /\ cap = c
  /\ main = "load"
  /\ armed = {}
  /\ eager = {}
  /\ hbStart = "idle"
  /\ hbToken = "none"
  /\ rounds = [r \in 1..c.rounds |-> NoRound]
  /\ retries = 0
  /\ beats = [b \in 1..c.beats |-> NoBeat]
  /\ recon = [k \in 1..c.recons |-> NoRecon]
  /\ polls = [p \in 1..c.polls |-> "idle"]
  /\ ledger = [id \in 1..MaxNodes |-> [uptime_ms |-> 0, downtime_ms |-> 0]]

Min(S) == CHOOSE x \in S : \A y \in S : x <= y

\* a slot is free once its invocation ended
RoundOver(rd) ==
  /\ rd.pc \in {"idle", "done", "returned", "aborted", "skipped", "rejected"}
  /\ rd.cb \in {"none", "end"}
  /\ \A i \in 1..MaxNodes : rd.node[i].pc \in {"wait", "done", "probeThrew", "reportThrew"}
FreeRounds == {r \in DOMAIN rounds : RoundOver(rounds[r])}
Running(rd) == rd.pc \in {"fetch", "nodes"}


\* ------------------------------------------------------------ probe round
\* runNodeTests up to its first await (the GET /nodes request).
runNodeTests_esm(file, lines, trig) ==
  [NoRound EXCEPT !.pc = "fetch", !.trigger = trig]

runNodeTests_cjs(file, lines, trig) ==
  LET token == loadToken_cjs(file)
  IN IF Falsy(token) THEN [NoRound EXCEPT !.pc = "skipped", !.trigger = trig]
     ELSE [NoRound EXCEPT !.pc = "fetch", !.trigger = trig, !.token = token]

\* getToken() is called outside the try: when it raises, the promise of
\* runNodeTests rejects
runNodeTests_sched(file, lines, trig) ==
  LET token == getToken_sched(file)
  IN IF token = "throw" THEN [NoRound EXCEPT !.pc = "rejected", !.trigger = trig]
     ELSE IF Falsy(token) THEN [NoRound EXCEPT !.pc = "skipped", !.trigger = trig]
     ELSE [NoRound EXCEPT !.pc = "fetch", !.trigger = trig, !.token = token]

runNodeTests_json(file, lines, trig) ==
  [NoRound EXCEPT !.pc = "fetch", !.trigger = trig]

runNodeTests_proxy(file, lines, trig) ==
  LET token == loadToken_proxy(file)
  IN IF Falsy(token) \/ lines = {}
     THEN [NoRound EXCEPT !.pc = "skipped", !.trigger = trig]
     ELSE [NoRound EXCEPT !.pc = "fetch", !.trigger = trig, !.token = token]

runNodeTests(s, file, lines, trig) ==
  CASE s = "esm" -> runNodeTests_esm(file, lines, trig)
    [] s = "cjs" -> runNodeTests_cjs(file, lines, trig)
    [] s = "sched" -> runNodeTests_sched(file, lines, trig)
    [] s = "json" -> runNodeTests_json(file, lines, trig)
    [] s = "proxy" -> runNodeTests_proxy(file, lines, trig)

\* the scripts whose round walks the list with for..of, one node at a time
Sequential(s) == s # "proxy"

\* updatePoints() of json up to its first network call: "points" when GET
\* /points is in flight, "end" when it returned without one
updatePoints_json(file) ==
  IF Falsy(getToken_json(file)) THEN "end" ELSE "points"

\* the json interval callback: await runNodeTests(); await updatePoints()
IntervalCallback(s, file, rd) ==
  IF s = "json" /\ rd.trigger = "timer" /\ rd.cb # "end"
  THEN (IF rd.pc \in {"done", "aborted"}
        THEN [rd EXCEPT !.cb = IF @ = "points" THEN @ ELSE updatePoints_json(file)]
        ELSE [rd EXCEPT !.cb = "round"])
  ELSE rd

\* a catch around the fetch alone: the loop goes on with a node it kept
FetchFailed_partial(rd) ==
  [rd EXCEPT !.pc = "nodes", !.failed = "fetch", !.nodes = <<1>>,
             !.node[1].pc = "probe", !.node[1].probes = 1]

\* the catch of runNodeTests after GET /nodes failed: the round is given up
FetchFailed(rd) == [rd EXCEPT !.pc = "aborted", !.failed = "fetch"]

\* the catch of runNodeTests after the iteration of a node raised
NodeFailed(rd) == [rd EXCEPT !.pc = "aborted", !.failed = "node"]

\* How GET /nodes ends: "ok" with an array, "error" the request failed,
\* "malformed" the body is no JSON or no array.
FetchOutcomes == {"ok", "error", "malformed"}

\* what `for (const node of nodes)` starts with: the first node's probe
StartLoop(rd, list) ==
  IF list = <<>> THEN [rd EXCEPT !.pc = "done", !.nodes = list]
  ELSE [rd EXCEPT !.pc = "nodes", !.nodes = list,
                  !.node[1].pc = "probe", !.node[1].probes = 1]

\* what Promise.all(nodes.map(...)) starts: every node's probe, each with a
\* proxy picked at random; pick[i] is the pick for node i
StartAll(rd, list, pick) ==
  IF list = <<>> THEN [rd EXCEPT !.pc = "returned", !.nodes = list]
  ELSE [rd EXCEPT !.pc = "nodes", !.nodes = list,
                  !.node = [i \in 1..MaxNodes |->
                              IF i <= Len(list)
                              THEN [NoNode EXCEPT !.pc = "probe", !.probes = 1,
                                                  !.proxy = pick[i]]
                              ELSE NoNode]]

\* a round that joins its nodes with Promise.race: the first node to end
\* completes it
NodeStep_firstDone(s, rd, i, n) ==
  LET rd1 == [rd EXCEPT !.node[i] = [n EXCEPT !.skipped = FALSE],
                        !.noCred = @ \/ n.skipped]
  IN IF n.pc \in {"probeThrew", "reportThrew"}
     THEN (IF rd1.pc = "nodes" THEN NodeFailed(rd1) ELSE rd1)
     ELSE IF n.pc # "done" THEN rd1
     ELSE IF Sequential(s)
     THEN (IF i < Len(rd.nodes)
           THEN [rd1 EXCEPT !.node[i + 1].pc = "probe", !.node[i + 1].probes = 1]
           ELSE [rd1 EXCEPT !.pc = "done"])
     ELSE (IF rd1.pc = "nodes" THEN [rd1 EXCEPT !.pc = "done"] ELSE rd1)

\* the round after the iteration of node i moved to record n
NodeStep(s, rd, i, n) ==
  LET rd1 == [rd EXCEPT !.node[i] = [n EXCEPT !.skipped = FALSE],
                        !.noCred = @ \/ n.skipped]
  IN IF n.pc \in {"probeThrew", "reportThrew"}
     THEN (IF rd1.pc = "nodes" THEN NodeFailed(rd1) ELSE rd1)
     ELSE IF n.pc # "done" THEN rd1
     ELSE IF Sequential(s)
     THEN (IF i < Len(rd.nodes)
           THEN [rd1 EXCEPT !.node[i + 1].pc = "probe", !.node[i + 1].probes = 1]
           ELSE [rd1 EXCEPT !.pc = "done"])
     ELSE (IF rd1.pc = "nodes" /\ \A j \in 1..Len(rd.nodes) : rd1.node[j].pc = "done"
           THEN [rd1 EXCEPT !.pc = "done"]
           ELSE rd1)

\* setTimeout(runNodeTests, 5000) in the catch of the proxy script
RetryAfter(s, old, new) ==
  IF s = "proxy" /\ old.pc # "aborted" /\ new.pc = "aborted" THEN 1 ELSE 0

\* what stays of an invocation: its record; when the run keeps no history,
\* only where it stands, and nothing once it is over
Kept(rd) ==
  IF cap.history THEN rd
  ELSE IF RoundOver(rd) THEN NoRound
  ELSE [rd EXCEPT !.trouble = FALSE, !.noCred = FALSE, !.before = <<>>,
                  !.trigger = IF script = "json" THEN @ ELSE "none"]

\* rounds' and retries' once round r moved to record rd
SetRound(r, rd) ==
  /\ retries + RetryAfter(script, rounds[r], rd) <= cap.retries
  /\ rounds' = [rounds EXCEPT ![r] = Kept(IntervalCallback(script, tokenFile, rd))]
  /\ retries' = retries + RetryAfter(script, rounds[r], rd)

\* a trigger starts runNodeTests in a free slot
StartRound(trig) ==
  /\ FreeRounds # {}
  /\ SetRound(Min(FreeRounds),
              [runNodeTests(script, tokenFile, proxies, trig) EXCEPT !.before = ledger])

\* a trigger that passes over its tick while a round is running
ProbeDue_idle ==
  "probe" \in armed /\ \A r \in DOMAIN rounds : ~Running(rounds[r])

\* the probe round's periodic trigger is set
ProbeDue == "probe" \in armed

\* setInterval(runNodeTests, 30 min) / scheduleJob('*/30 * * * *') fires
ProbeTick ==
  /\ main = "running"
  /\ ProbeDue
  /\ StartRound("timer")
  /\ UNCHANGED <<script, tokenFile, proxies, cap, main, armed, eager, hbStart,
                 hbToken, beats, recon, polls, ledger>>

\* the timer set by the catch of the proxy script fires
RetryFires ==
  /\ retries > 0
  /\ FreeRounds # {}
  /\ rounds' = [rounds EXCEPT ![Min(FreeRounds)] =
                  [runNodeTests(script, tokenFile, proxies, "retry")
                     EXCEPT !.before = ledger]]
  /\ retries' = retries - 1
  /\ UNCHANGED <<script, tokenFile, proxies, cap, main, armed, eager, hbStart,
                 hbToken, beats, recon, polls, ledger>>

\* GET /nodes settles
FetchSettles(r) ==
  /\ rounds[r].pc = "fetch"
  /\ \E out \in FetchOutcomes :
       IF out # "ok" THEN SetRound(r, FetchFailed(rounds[r]))
       ELSE \E list \in NodeLists(cap.nodes) :
              IF Sequential(script) THEN SetRound(r, StartLoop(rounds[r], list))
              ELSE \E pick \in [1..Len(list) -> proxies] :
                     SetRound(r, StartAll(rounds[r], list, pick))
  /\ UNCHANGED <<script, tokenFile, proxies, cap, main, armed, eager, hbStart,
                 hbToken, beats, recon, polls, ledger>>

\* the request of node i's probe settles: testNodeLatency runs to its return
\* (or to the POST it makes in its catch)
ProbeSettles(r, i) ==
  /\ rounds[r].node[i].pc = "probe"
  /\ \E kind \in EventsOf(script, rounds[r].node[i].proxy), at \in Times :
       LET ev == Race(kind, at)
       IN SetRound(r, NodeStep(script, [rounds[r] EXCEPT !.trouble = @ \/ ev # "response"], i,
                               AfterProbe(script, tokenFile, rounds[r].token,
                                          rounds[r].node[i], rounds[r].nodes[i], ev, at)))
  /\ UNCHANGED <<script, tokenFile, proxies, cap, main, armed, eager, hbStart,
                 hbToken, beats, recon, polls, ledger>>

\* the loser of node i's race settles after the race was decided: the late
\* answer or the late timer finds Promise.race settled and changes nothing
LoserSettles(r, i) ==
  /\ rounds[r].node[i].late # "none"
  /\ rounds' = [rounds EXCEPT ![r].node[i].late = "none"]
  /\ UNCHANGED <<script, tokenFile, proxies, cap, main, armed, eager, hbStart,
                 hbToken, retries, beats, recon, polls, ledger>>

\* the POST /test made in the catch of testNodeLatency (esm, json) settles:
\* testNodeLatency returns -1
CatchPostSettles(r, i) ==
  /\ rounds[r].node[i].pc = "catchPost"
  /\ \E out \in PostOutcomes :
       LET n == [rounds[r].node[i] EXCEPT !.req = <<>>]
       IN SetRound(r, NodeStep(script, [rounds[r] EXCEPT !.trouble = @ \/ out # "ok"], i,
            IF reportTestResult_settled(script, out) = "throw"
            THEN [n EXCEPT !.pc = "probeThrew"]
            ELSE [n EXCEPT !.pc = "probed"]))
  /\ UNCHANGED <<script, tokenFile, proxies, cap, main, armed, eager, hbStart,
                 hbToken, beats, recon, polls, ledger>>

\* the loop body goes on after `await testNodeLatency(node)`: it logs the
\* latency and calls reportTestResult
Reports(r, i) ==
  /\ rounds[r].node[i].pc = "probed"
  /\ SetRound(r, NodeStep(script, rounds[r], i,
                          LoopReport(script, tokenFile, rounds[r].token,
                                     rounds[r].node[i], rounds[r].nodes[i])))
  /\ UNCHANGED <<script, tokenFile, proxies, cap, main, armed, eager, hbStart,
                 hbToken, beats, recon, polls, ledger>>

\* the POST /test of the loop body settles: the node's iteration ends
PostSettles(r, i) ==
  /\ rounds[r].node[i].pc = "post"
  /\ \E out \in PostOutcomes :
       LET n == [rounds[r].node[i] EXCEPT !.req = <<>>]
       IN SetRound(r, NodeStep(script, [rounds[r] EXCEPT !.trouble = @ \/ out # "ok"], i,
            IF reportTestResult_settled(script, out) = "throw"
            THEN [n EXCEPT !.pc = "reportThrew"]
            ELSE Ended(n)))
  /\ UNCHANGED <<script, tokenFile, proxies, cap, main, armed, eager, hbStart,
                 hbToken, beats, recon, polls, ledger>>

\* GET /points of the json interval callback settles (updatePoints only logs)
CallbackPointsSettle(r) ==
  /\ rounds[r].cb = "points"
  /\ rounds' = [rounds EXCEPT ![r] = Kept([@ EXCEPT !.cb = "end"])]
  /\ UNCHANGED <<script, tokenFile, proxies, cap, main, armed, eager, hbStart,
                 hbToken, retries, beats, recon, polls, ledger>>

\* the token file is written, emptied, removed or made unreadable
TokenChanges ==
  /\ main = "running"
  /\ \E f \in TokenFiles \ {tokenFile} : tokenFile' = f
  /\ UNCHANGED <<script, proxies, cap, main, armed, eager, hbStart, hbToken,
                 rounds, retries, beats, recon, polls, ledger>>

\* ---------------------------------------------------------------- startup
\* the periodic triggers the top-level code of each script sets itself
\* (esm and json set the heartbeat's in startHeartbeat)
TimersOf(s) ==
  CASE s = "esm" -> {}
    [] s = "cjs" -> {"probe", "heartbeat"}
    [] s = "sched" -> {"probe", "heartbeat"}
    [] s = "json" -> {"probe"}
    [] s = "proxy" -> {"probe", "heartbeat", "points"}

\* the tasks the top-level code of each script invokes itself
EagerOf(s) == IF s = "esm" THEN {"probe"} ELSE {}

\* the top-level code runs to its end
Startup ==
  /\ main = "load"
  /\ IF script = "sched" /\ tokenFile = "missing"
     THEN /\ main' = "prompt"
          /\ UNCHANGED <<armed, eager, hbStart, rounds, retries>>
     ELSE /\ main' = "running"
          /\ armed' = TimersOf(script)
          /\ eager' = EagerOf(script)
          /\ hbStart' = IF script \in {"esm", "json"} THEN "reading" ELSE hbStart
          /\ IF "probe" \in EagerOf(script)
             THEN StartRound("eager")
             ELSE UNCHANGED <<rounds, retries>>
  /\ UNCHANGED <<script, tokenFile, proxies, cap, hbToken, beats, recon, polls, ledger>>

\* rl.question's callback (sched): saveToken(newToken); scheduleTasks()
TokenEntered ==
  /\ main = "prompt"
  /\ \E f \in {"empty", "valid"} : tokenFile' = f
  /\ main' = "running"
  /\ armed' = TimersOf(script)
  /\ UNCHANGED <<script, proxies, cap, eager, hbStart, hbToken, rounds, retries,
                 beats, recon, polls, ledger>>

RoundNext ==
  \/ ProbeTick
  \/ RetryFires
  \/ \E r \in DOMAIN rounds : FetchSettles(r)
  \/ \E r \in DOMAIN rounds, i \in 1..MaxNodes : ProbeSettles(r, i)
  \/ \E r \in DOMAIN rounds, i \in 1..MaxNodes : LoserSettles(r, i)
  \/ \E r \in DOMAIN rounds, i \in 1..MaxNodes : CatchPostSettles(r, i)
  \/ \E r \in DOMAIN rounds, i \in 1..MaxNodes : Reports(r, i)
  \/ \E r \in DOMAIN rounds, i \in 1..MaxNodes : PostSettles(r, i)
  \/ \E r \in DOMAIN rounds : CallbackPointsSettle(r)

\* The probe round by itself: one runNodeTests invocation at a time (an
\* invocation shares no state with another one), over lists of up to
\* MaxNodes nodes, the heartbeat and the point refresh left out.
InitRounds ==
  InitWith([nodes |-> MaxNodes, rounds |-> 1, retries |-> MaxRetries,
            beats |-> 0, recons |-> 0, polls |-> 0, tries |-> 1, history |-> TRUE])

NextRounds == Startup \/ TokenEntered \/ TokenChanges \/ RoundNext

SpecRounds == InitRounds /\ [][NextRounds]_vars

\* Probe rounds side by side: up to MaxRounds runNodeTests invocations in
\* flight, over lists of at most one node; a round that ended leaves no
\* record.
InitOverlap ==
  InitWith([nodes |-> 1, rounds |-> MaxRounds, retries |-> 1,
            beats |-> 0, recons |-> 0, polls |-> 0, tries |-> 1, history |-> FALSE])

SpecOverlap == InitOverlap /\ [][NextRounds]_vars


\* -------------------------------------------------------------- heartbeat
\* One heartbeat invocation (the interval callback, or sendHeartbeat).
\*   pc: "idle", "geo" getGeoLocation in flight, "post" POST /heartbeat in
\*       flight, "points" GET /points in flight (sched: updatePoints after a
\*       successful heartbeat), "done", "skipped" no token, "rejected" it
\*       raised
\*   trigger: "timer" or "reconnect"
\*   during: a probe round was running when the invocation started
\*   req: the POST /heartbeat in flight
\*   geo: how the geolocation lookup of the invocation ended
\*   tries: how many sendHeartbeat calls of reconnect() lie between the
\*       scheduled heartbeat and this one, itself included
\* One reconnect invocation.
\*   pc: "idle", "await" it awaits sendHeartbeat, "sleep" the 30 s of its
\*       catch, "done" it returned, "gaveup" after maxAttempts
\*   attempts: its counter; beat: the heartbeat it awaits; tries: as above,
\*       of the call it made last
FreeBeats == {b \in DOMAIN beats : beats[b].pc \in {"idle", "done", "skipped", "rejected"}}

\* startHeartbeat's interval callback (esm, json): the token was read once
heartbeat_esm(file, cached, trig) ==
  [NoBeat EXCEPT !.pc = "geo", !.trigger = trig, !.token = cached]

\* the callback without its `if (!token) return`
heartbeat_cjs_unchecked(file, cached, trig) ==
  [NoBeat EXCEPT !.pc = "geo", !.trigger = trig, !.token = loadToken_cjs(file)]

\* the heartbeat interval callback of cjs: loadToken() at every tick
heartbeat_cjs(file, cached, trig) ==
  LET token == loadToken_cjs(file)
  IN IF Falsy(token) THEN [NoBeat EXCEPT !.pc = "skipped", !.trigger = trig]
     ELSE [NoBeat EXCEPT !.pc = "geo", !.trigger = trig, !.token = token]

\* sendHeartbeat of sched: getToken() is outside the try
sendHeartbeat_sched(file, cached, trig) ==
  LET token == getToken_sched(file)
  IN IF token = "throw" THEN [NoBeat EXCEPT !.pc = "rejected", !.trigger = trig]
     ELSE IF Falsy(token) THEN [NoBeat EXCEPT !.pc = "skipped", !.trigger = trig]
     ELSE [NoBeat EXCEPT !.pc = "geo", !.trigger = trig, !.token = token]

heartbeat_json(file, cached, trig) ==
  [NoBeat EXCEPT !.pc = "geo", !.trigger = trig, !.token = cached]

heartbeat_proxy(file, cached, trig) ==
  LET token == loadToken_proxy(file)
  IN IF Falsy(token) THEN [NoBeat EXCEPT !.pc = "skipped", !.trigger = trig]
     ELSE [NoBeat EXCEPT !.pc = "geo", !.trigger = trig, !.token = token]

\* a heartbeat invocation up to its first await
Heartbeat(s, file, cached, trig) ==
  CASE s = "esm" -> heartbeat_esm(file, cached, trig)
    [] s = "cjs" -> heartbeat_cjs(file, cached, trig)
    [] s = "sched" -> sendHeartbeat_sched(file, cached, trig)
    [] s = "json" -> heartbeat_json(file, cached, trig)
    [] s = "proxy" -> heartbeat_proxy(file, cached, trig)

\* getGeoLocation without its catch: what a failed lookup left is passed on
getGeoLocation_nocatch(lookup) ==
  IF lookup = "ok" THEN [ip |-> "ip", location |-> "city, region, country"]
  ELSE [ip |-> "undefined", location |-> "undefined, undefined, undefined"]

\* getGeoLocation: the lookup's answer, or the sentinel when it failed
getGeoLocation(lookup) ==
  IF lookup = "ok" THEN [ip |-> "ip", location |-> "city, region, country"]
  ELSE [ip |-> "unknown", location |-> "unknown"]

\* the body and bearer token of POST /heartbeat
HeartbeatPayload(geoInfo, t) ==
  [ip |-> geoInfo.ip, location |-> geoInfo.location, token |-> t]

\* startHeartbeat (esm, json) after `await getToken()`: it sets the interval
\* only when it read a token
StartHeartbeatReads ==
  /\ hbStart = "reading"
  /\ LET token == ReadToken(script, tokenFile)
     IN IF Falsy(token)
        THEN /\ hbStart' = "skipped"
             /\ UNCHANGED <<armed, hbToken>>
        ELSE /\ hbStart' = "armed"
             /\ armed' = armed \cup {"heartbeat"}
             /\ hbToken' = token
  /\ UNCHANGED <<script, tokenFile, proxies, cap, main, eager, rounds, retries,
                 beats, recon, polls, ledger>>

\* an invocation that goes on to its network calls notes what runs beside it
Started(beat) ==
  IF beat.pc = "geo"
  THEN [beat EXCEPT !.during = \E r \in DOMAIN rounds : Running(rounds[r])]
  ELSE beat

\* the heartbeat chained behind the probe round, as json chains updatePoints
HeartbeatDue_afterRound ==
  "heartbeat" \in armed /\ \A r \in DOMAIN rounds : ~Running(rounds[r])

\* the heartbeat's periodic trigger is set
HeartbeatDue == "heartbeat" \in armed

\* setInterval(..., HEARTBEAT_INTERVAL) / scheduleJob('*/5 * * * *') fires
HeartbeatTick ==
  /\ main = "running"
  /\ HeartbeatDue
  /\ FreeBeats # {}
  /\ beats' = [beats EXCEPT ![Min(FreeBeats)] =
                 Started(Heartbeat(script, tokenFile, hbToken, "timer"))]
  /\ UNCHANGED <<script, tokenFile, proxies, cap, main, armed, eager, hbStart,
                 hbToken, rounds, retries, recon, polls, ledger>>

\* the geolocation lookup settles and POST /heartbeat is sent
GeoSettles(b) ==
  /\ beats[b].pc = "geo"
  /\ \E lookup \in {"ok", "failed"} :
       beats' = [beats EXCEPT ![b].pc = "post", ![b].geo = lookup,
                              ![b].req = <<HeartbeatPayload(getGeoLocation(lookup),
                                                            beats[b].token)>>]
  /\ UNCHANGED <<script, tokenFile, proxies, cap, main, armed, eager, hbStart,
                 hbToken, rounds, retries, recon, polls, ledger>>

\* sendHeartbeat of sched once POST /heartbeat settled: "points" it awaits
\* updatePoints' GET /points, "done" it returned, "reconnect" its catch ran
\* (axios raises on a non-2xx answer; getToken() in updatePoints may raise)
sendHeartbeat_settled(file, out) ==
  IF out = "ok"
  THEN (IF getToken_sched(file) = "throw" THEN "reconnect"
        ELSE IF Falsy(getToken_sched(file)) THEN "done" ELSE "points")
  ELSE "reconnect"

\* reconnect()'s loop calls sendHeartbeat in beat slot b: when the call
\* raised it counts the attempt and sleeps 30 s, when it returned at once
\* (no token) reconnect returns, else it awaits the call
Attempt(rc, b, beat) ==
  IF beat.pc = "rejected"
  THEN [rc EXCEPT !.pc = "sleep", !.attempts = @ + 1, !.beat = 0,
                  !.tries = beat.tries]
  ELSE IF beat.pc = "skipped" THEN [NoRecon EXCEPT !.pc = "done"]
  ELSE [rc EXCEPT !.pc = "await", !.beat = b, !.tries = 0]

\* the heartbeat record kept once reconnect() has looked at its call
Called(beat) ==
  IF beat.pc \in {"skipped", "rejected"} THEN [beat EXCEPT !.tries = 0] ELSE beat

\* the reconnect that awaits beat b goes on when b returns: 'Reconnection
\* successful.'
Resumed(rc, b) ==
  [k \in DOMAIN rc |->
     IF rc[k].pc = "await" /\ rc[k].beat = b THEN [NoRecon EXCEPT !.pc = "done"]
     ELSE rc[k]]

\* POST /heartbeat settles
HeartbeatSettles(b) ==
  /\ beats[b].pc = "post"
  /\ \E out \in PostOutcomes :
       LET next == IF script = "sched" THEN sendHeartbeat_settled(tokenFile, out)
                   ELSE "done"
           over == [NoBeat EXCEPT !.pc = "done", !.trigger = beats[b].trigger]
       IN IF next = "points"
          THEN beats' = [beats EXCEPT ![b].pc = "points", ![b].req = <<>>,
                                      ![b].token = "none", ![b].during = FALSE,
                                      ![b].tries = 0, ![b].geo = "none"]
               /\ recon' = recon
          ELSE IF next = "done"
          THEN beats' = [beats EXCEPT ![b] = over] /\ recon' = Resumed(recon, b)
          ELSE \* the catch calls reconnect(), which calls sendHeartbeat()
               LET rc == Resumed(recon, b)
                   free == {k \in DOMAIN rc : rc[k].pc \in {"idle", "done", "gaveup"}}
                   beat == [sendHeartbeat_sched(tokenFile, hbToken, "reconnect")
                              EXCEPT !.tries = beats[b].tries + 1]
               IN /\ free # {}
                  /\ beats[b].tries < cap.tries
                  /\ beats' = [beats EXCEPT ![b] = Called(beat)]
                  /\ recon' = [rc EXCEPT ![Min(free)] = Attempt(NoRecon, b, beat)]
  /\ UNCHANGED <<script, tokenFile, proxies, cap, main, armed, eager, hbStart,
                 hbToken, rounds, retries, polls, ledger>>

\* GET /points of sched's updatePoints settles (updatePoints only logs) and
\* sendHeartbeat returns
BeatPointsSettle(b) ==
  /\ beats[b].pc = "points"
  /\ beats' = [beats EXCEPT ![b] = [NoBeat EXCEPT !.pc = "done",
                                                  !.trigger = beats[b].trigger]]
  /\ recon' = Resumed(recon, b)
  /\ UNCHANGED <<script, tokenFile, proxies, cap, main, armed, eager, hbStart,
                 hbToken, rounds, retries, polls, ledger>>

\* the 30 s sleep of reconnect's catch ends: the loop tries again, or gives
\* up after maxAttempts
ReconnectWakes(k) ==
  /\ recon[k].pc = "sleep"
  /\ IF recon[k].attempts < maxAttempts
     THEN /\ FreeBeats # {}
          /\ recon[k].tries < cap.tries
          /\ LET nb == Min(FreeBeats)
                 beat == [sendHeartbeat_sched(tokenFile, hbToken, "reconnect")
                            EXCEPT !.tries = recon[k].tries + 1]
             IN /\ beats' = [beats EXCEPT ![nb] = Called(beat)]
                /\ recon' = [recon EXCEPT ![k] = Attempt(recon[k], nb, beat)]
     ELSE /\ recon' = [recon EXCEPT ![k].pc = "gaveup"]
          /\ beats' = beats
  /\ UNCHANGED <<script, tokenFile, proxies, cap, main, armed, eager, hbStart,
                 hbToken, rounds, retries, polls, ledger>>

\* ---------------------------------------------------------- point balance
FreePolls == {p \in DOMAIN polls : polls[p] \in {"idle", "done", "skipped"}}

\* getPoints of proxy up to its first network call
getPoints(file) == IF Falsy(loadToken_proxy(file)) THEN "skipped" ELSE "get"

\* the point refresh's own periodic trigger is set
PointsDue == "points" \in armed

\* setInterval(..., 60000) of proxy fires
PointsTick ==
  /\ main = "running"
  /\ PointsDue
  /\ FreePolls # {}
  /\ polls' = [polls EXCEPT ![Min(FreePolls)] = getPoints(tokenFile)]
  /\ UNCHANGED <<script, tokenFile, proxies, cap, main, armed, eager, hbStart,
                 hbToken, rounds, retries, beats, recon, ledger>>

\* GET /points of the timer callback settles (the callback only logs)
PointsSettle(p) ==
  /\ polls[p] = "get"
  /\ polls' = [polls EXCEPT ![p] = "done"]
  /\ UNCHANGED <<script, tokenFile, proxies, cap, main, armed, eager, hbStart,
                 hbToken, rounds, retries, beats, recon, ledger>>

BeatNext ==
  \/ StartHeartbeatReads
  \/ HeartbeatTick
  \/ \E b \in DOMAIN beats : GeoSettles(b)
  \/ \E b \in DOMAIN beats : HeartbeatSettles(b)
  \/ \E b \in DOMAIN beats : BeatPointsSettle(b)
  \/ \E k \in DOMAIN recon : ReconnectWakes(k)
  \/ PointsTick
  \/ \E p \in DOMAIN polls : PointsSettle(p)

\* The whole agent: the three tasks side by side, up to MaxBeats heartbeats
\* in flight, with one probe round at a time over lists of at most one node,
\* one reconnect sequence and one point-balance callback at a time, and two
\* heartbeat attempts of reconnect() in a row.
Init ==
  InitWith([nodes |-> 1, rounds |-> 1, retries |-> 1, beats |-> MaxBeats,
            recons |-> 1, polls |-> 1, tries |-> 2, history |-> TRUE])

Next == Startup \/ TokenEntered \/ TokenChanges \/ RoundNext \/ BeatNext

Spec == Init /\ [][Next]_vars

\* The heartbeat by itself: the heartbeat, its reconnect sequence and the
\* point refresh, without the steps of the probe round, with up to MaxTries
\* heartbeat attempts of reconnect() in a row.
InitBeats ==
  InitWith([nodes |-> 1, rounds |-> 1, retries |-> 1, beats |-> MaxBeats,
            recons |-> 1, polls |-> 1, tries |-> MaxTries, history |-> TRUE])

NextBeats == Startup \/ TokenEntered \/ TokenChanges \/ BeatNext

SpecBeats == InitBeats /\ [][NextBeats]_vars


\* ------------------------------------------------------------------ claims
NodesOf(r) == 1..Len(rounds[r].nodes)

\* the POST /test requests in flight
TestPosts ==
  {rounds[r].node[i].req[1] :
     <<r, i>> \in {x \in (DOMAIN rounds) \X (1..MaxNodes) : rounds[x[1]].node[x[2]].req # <<>>}}

\* the POST /heartbeat requests in flight
HeartbeatPosts == {beats[b].req[1] : b \in {x \in DOMAIN beats : beats[x].req # <<>>}}

\* C1: in a round that has a credential and fetched the node list, every
\* node of the list is probed and reported, whatever happens to the other
\* nodes: the round's catch never runs for a node, and when the round
\* completes every node went through one probe and at least one
\* reportTestResult call, which made its POST /test (unless the node's proxy
\* line is unusable).
C1_EveryNodeProbedAndReported ==
  \A r \in DOMAIN rounds :
    /\ ~rounds[r].noCred => rounds[r].failed # "node"
    /\ rounds[r].pc = "done" =>
         \A i \in NodesOf(r) :
           /\ rounds[r].node[i].pc = "done"
           /\ rounds[r].node[i].probes = 1
           /\ rounds[r].node[i].calls >= 1
           /\ (~rounds[r].noCred /\ "bad" \notin proxies) => rounds[r].node[i].posts >= 1

\* a round with a credential completed over two nodes although a probe or a
\* submission of it failed
C1_Witness ==
  \E r \in DOMAIN rounds :
    /\ rounds[r].pc = "done" /\ Len(rounds[r].nodes) >= 2
    /\ rounds[r].trouble /\ ~rounds[r].noCred
    /\ \A i \in NodesOf(r) : rounds[r].node[i].posts >= 1

\* C2: testNodeLatency never raises to its caller; a probe that ended in a
\* timeout, a failed request or a failed proxy agent returned -1.
C2_ProbeNeverThrows ==
  \A r \in DOMAIN rounds, i \in 1..MaxNodes :
    /\ rounds[r].node[i].pc # "probeThrew"
    /\ (/\ rounds[r].node[i].pc \in {"probed", "catchPost", "post"}
        /\ rounds[r].node[i].ev \in {"timeout", "error", "agentError"})
       => rounds[r].node[i].lat = Unreachable

\* testNodeLatency returned -1 to the round after the proxy agent could not be
\* built, and after a timeout
C2_Witness ==
  \E r \in DOMAIN rounds, i, j \in 1..MaxNodes :
    /\ rounds[r].node[i].pc = "probed" /\ rounds[r].node[i].ev = "agentError"
    /\ rounds[r].node[i].lat = Unreachable
    /\ rounds[r].node[j].pc = "probed" /\ rounds[r].node[j].ev = "timeout"
    /\ rounds[r].node[j].lat = Unreachable

\* C3: in every POST /test the status is "online" exactly when the latency
\* is positive and "offline" otherwise; equal latencies carry equal statuses.
C3_StatusFromLatency ==
  /\ \A q \in TestPosts : q.status = (IF q.latency > 0 THEN "online" ELSE "offline")
  /\ \A q1, q2 \in TestPosts : q1.latency = q2.latency => q1.status = q2.status

\* two results are being submitted, one of an unreachable node and one of a
\* node that answered
C3_Witness ==
  \E q1, q2 \in TestPosts :
    /\ q1.latency = Unreachable /\ q1.status = "offline"
    /\ q2.latency > 0 /\ q2.status = "online"

Credited(rec, latency) ==
  IF latency > 0
  THEN [rec EXCEPT !.uptime_ms = @ + NODE_TEST_INTERVAL]
  ELSE [rec EXCEPT !.downtime_ms = @ + NODE_TEST_INTERVAL]

\* C6: a probed node's uptime record is updated by the round interval: when
\* the node's result is submitted, its record is the one the round started
\* with plus the interval in the bucket of the probe's outcome.
C6_LedgerCredited ==
  \A r \in DOMAIN rounds, i \in 1..MaxNodes :
    rounds[r].node[i].pc = "post" =>
      ledger[rounds[r].nodes[i]] =
        Credited(rounds[r].before[rounds[r].nodes[i]], rounds[r].node[i].lat)

\* C7: with a credential, a completed round made exactly one
\* reportTestResult call, and at most one POST /test, per node of the list.
C7_OneSubmissionPerNode ==
  \A r \in DOMAIN rounds :
    (rounds[r].pc = "done" /\ ~rounds[r].noCred) =>
      \A i \in NodesOf(r) : rounds[r].node[i].calls = 1 /\ rounds[r].node[i].posts <= 1


\* C4: no POST /test and no POST /heartbeat is made without a credential:
\* every request in flight carries the token, a heartbeat goes on to its
\* network calls only with a token, a heartbeat that found none has no
\* request, and a reportTestResult call that found none made no POST.
C4_NoTokenNoPost ==
  /\ \A q \in TestPosts \cup HeartbeatPosts : q.token = "tok"
  /\ \A b \in DOMAIN beats :
       /\ beats[b].pc \in {"geo", "post"} => beats[b].token = "tok"
       /\ beats[b].pc \in {"skipped", "rejected"} => beats[b].req = <<>>
  /\ \A r \in DOMAIN rounds, i \in 1..MaxNodes :
       rounds[r].node[i].skipped =>
         rounds[r].node[i].req = <<>> /\ rounds[r].node[i].posts = 0

\* without a usable token file a heartbeat returned at its token check and a
\* round called reportTestResult for its node, and nothing was posted
C4_Witness ==
  /\ tokenFile # "valid"
  /\ \E b \in DOMAIN beats : beats[b].pc = "skipped"
  /\ \E r \in DOMAIN rounds :
       /\ rounds[r].noCred /\ rounds[r].pc = "done" /\ Len(rounds[r].nodes) = 1
       /\ rounds[r].node[1].calls >= 1 /\ rounds[r].node[1].posts = 0
  /\ TestPosts = {} /\ HeartbeatPosts = {}

\* C8: the heartbeat does not wait for the probe round: while a round is
\* running, a heartbeat whose interval is set can fire, and a heartbeat that
\* waits for its geolocation lookup can send its POST /heartbeat.
C8_HeartbeatNotDelayed ==
  (\E r \in DOMAIN rounds : Running(rounds[r])) =>
    /\ (main = "running" /\ "heartbeat" \in armed /\ FreeBeats # {})
         => ENABLED HeartbeatTick
    /\ \A b \in DOMAIN beats : beats[b].pc = "geo" => ENABLED GeoSettles(b)

\* a heartbeat that fired while a probe round was running has its POST
\* /heartbeat in flight, and the round is still running
C8_Witness ==
  /\ \E r \in DOMAIN rounds : Running(rounds[r]) /\ rounds[r].pc = "nodes"
  /\ \E b \in DOMAIN beats :
       beats[b].during /\ beats[b].pc = "post" /\ beats[b].trigger = "timer"

\* C9: a point-balance refresh is started by its own timer only, never by
\* the end of a probe round nor by a heartbeat that succeeded.
C9_RefreshOnOwnTimer ==
  /\ \A r \in DOMAIN rounds : rounds[r].cb # "points"
  /\ \A b \in DOMAIN beats : beats[b].pc # "points"

\* C10: once the top-level code has run, each of the three tasks has been
\* invoked once by it, before any timer tick.
C10_EagerInvocations ==
  main = "running" => eager = {"probe", "heartbeat", "points"}


\* C11: the probe round recurs: once the top-level code has run, the probe
\* round's periodic trigger is set, so that a round starts at every tick.
C11_ProbeRecurs ==
  main = "running" => ProbeDue


\* C12: no failure is fatal: no invocation of a scheduled task raises; a
\* probe round and a heartbeat started by their timers never end in a
\* rejected promise.
C12_NoTaskRejects ==
  /\ \A r \in DOMAIN rounds : rounds[r].pc # "rejected"
  /\ \A b \in DOMAIN beats :
       beats[b].trigger = "timer" => beats[b].pc # "rejected"


\* C13: the reconnect sequence is bounded: a failed scheduled heartbeat sets
\* off at most maxAttempts further heartbeat attempts before the next
\* scheduled tick.
C13_ReconnectBounded ==
  \A b \in DOMAIN beats : beats[b].tries <= maxAttempts


\* C14: a missing credential never disables the heartbeat: once the startup
\* code has run (and startHeartbeat has read the token), the heartbeat's
\* periodic trigger is set, whatever the token file held, so that a later
\* tick can send a heartbeat with a token that came later.
C14_HeartbeatStaysArmed ==
  (main = "running" /\ hbStart # "reading") => HeartbeatDue


\* C15: a geolocation failure never aborts a heartbeat: a heartbeat that
\* has a token and waits for the lookup goes on to POST /heartbeat and to
\* nothing else, and after a failed lookup the ip and location it submits are
\* both "unknown" (after a lookup that succeeded, the ones looked up).
C15_GeoFailureStillBeats ==
  [][\A b \in DOMAIN beats :
       (beats[b].pc = "geo" /\ beats'[b] # beats[b]) =>
         /\ beats'[b].pc = "post" /\ beats'[b].req # <<>>
         /\ beats'[b].req[1].token = beats[b].token
         /\ beats'[b].geo = "failed" =>
              beats'[b].req[1].ip = "unknown" /\ beats'[b].req[1].location = "unknown"
         /\ beats'[b].geo = "ok" => beats'[b].req[1].ip = "ip"]_vars

\* a heartbeat whose lookup failed has its POST /heartbeat in flight, with
\* the token and the sentinel values
C15_Witness ==
  \E b \in DOMAIN beats :
    /\ beats[b].pc = "post" /\ beats[b].geo = "failed"
    /\ beats[b].req = <<[ip |-> "unknown", location |-> "unknown", token |-> "tok"]>>


\* The probe round with the progress the code itself guarantees: the
\* top-level code and the continuation after a probe run on; a probe settles,
\* at the latest when its 5000 ms timeout does; a timer that was set fires.
\* GET /nodes and POST /test carry no timeout: whether they settle is left to
\* the peer.
LiveRounds ==
  /\ SpecRounds
  /\ WF_vars(Startup)
  /\ WF_vars(RetryFires)
  /\ \A i \in 1..MaxNodes : WF_vars(ProbeSettles(1, i)) /\ WF_vars(Reports(1, i))

\* C16: every probe round that started eventually completes, even when a
\* node or the coordinator never answers.
C16_RoundCompletes ==
  Running(rounds[1]) ~> ~Running(rounds[1])


\* the states of a node's iteration in which its probe has returned
Decided == {"probed", "catchPost", "post"}

\* C17: the first of the request and the 5000 ms timer to settle decides the
\* probe: testNodeLatency returns a latency >= 0 (below the timeout) exactly
\* when the response came first and -1 when the timer came first or the
\* request failed, and whatever settles afterwards changes nothing of what
\* was returned.
C17_FirstSettledDecides ==
  [][\A r \in DOMAIN rounds, i \in 1..MaxNodes :
       LET n == rounds[r].node[i]
           m == rounds'[r].node[i]
       IN /\ (n.pc = "probe" /\ m.pc \in Decided) =>
               /\ m.lat >= 0 <=> m.ev = "response"
               /\ m.lat >= 0 => m.lat < timeout
               /\ m.lat < 0 => m.lat = Unreachable
          /\ (n.pc \in Decided /\ m.pc \in Decided) =>
               m.lat = n.lat /\ m.ev = n.ev]_vars

\* the timer decided a probe (-1), the request settled afterwards, and the
\* result being submitted is still -1
C17_Witness ==
  \E r \in DOMAIN rounds, i \in 1..MaxNodes :
    /\ rounds[r].node[i].pc = "post" /\ rounds[r].node[i].ev = "timeout"
    /\ rounds[r].node[i].late = "none" /\ script = "cjs"
    /\ rounds[r].node[i].req[1].latency = Unreachable


\* C18: probe rounds may overlap: while a round is running, the probe
\* round's trigger, when it is set, can fire and start another round beside
\* it; no tick is passed over because of a running round.
C18_RoundsOverlap ==
  (/\ \E r \in DOMAIN rounds : Running(rounds[r])
   /\ main = "running" /\ "probe" \in armed /\ FreeRounds # {})
  => ENABLED ProbeTick

\* two rounds are running at once in a script whose rounds only the timer
\* starts, the first one probing its node when the second was started
C18_Witness ==
  /\ script = "cjs"
  /\ \E r1, r2 \in DOMAIN rounds :
       /\ r1 # r2
       /\ rounds[r1].pc = "nodes" /\ rounds[r1].node[1].pc = "probe"
       /\ rounds[r2].pc = "fetch"


\* C19: a round that aborted schedules no extra work: no runNodeTests call
\* is ever pending on a timer other than the periodic one, and no round is
\* started by anything but the periodic tick (or the startup code).
C19_NoExtraRound ==
  /\ retries = 0
  /\ \A r \in DOMAIN rounds : rounds[r].trigger # "retry"


\* C20: heartbeat retries are spaced by the backoff: a heartbeat attempt of
\* reconnect() that follows a failed attempt starts only in a step in which
\* a 30-second sleep of reconnect ends.
C20_RetriesSpaced ==
  [][\A b \in DOMAIN beats :
       beats'[b].tries > beats[b].tries =>
         \E k \in DOMAIN recon : recon[k].pc = "sleep" /\ recon'[k].pc # "sleep"]_vars


\* C21: a round is declared complete only after all the work of every node
\* of it has settled: in a completed round each node of the list has ended
\* its iteration, no probe and no POST /test of the round is in flight, and
\* nothing was started for a node that is not on the list; this also when
\* the nodes are processed side by side.
C21_CompleteAfterAllSettled ==
  \A r \in DOMAIN rounds :
    rounds[r].pc = "done" =>
      \A i \in 1..MaxNodes :
        /\ rounds[r].node[i].pc = (IF i <= Len(rounds[r].nodes) THEN "done" ELSE "wait")
        /\ rounds[r].node[i].req = <<>>

\* a round of the script that probes its nodes side by side completed over
\* two nodes, each of them probed and reported
C21_Witness ==
  /\ script = "proxy"
  /\ \E r \in DOMAIN rounds :
       /\ rounds[r].pc = "done" /\ Len(rounds[r].nodes) = 2
       /\ \A i \in 1..2 : rounds[r].node[i].probes = 1 /\ rounds[r].node[i].posts = 1


\* C22: a node's result is submitted only after the node's probe has
\* settled, and it is the outcome of that probe of that node: every POST
\* /test in flight belongs to a node whose one probe has ended, and carries
\* that node's id, the latency its probe returned and the status of that
\* latency.
C22_SubmitsOwnOutcome ==
  \A r \in DOMAIN rounds, i \in 1..MaxNodes :
    rounds[r].node[i].req # <<>> =>
      /\ i <= Len(rounds[r].nodes)
      /\ rounds[r].node[i].pc \in {"catchPost", "post"}
      /\ rounds[r].node[i].probes = 1 /\ rounds[r].node[i].ev # "none"
      /\ rounds[r].node[i].req[1].node_id = rounds[r].nodes[i]
      /\ rounds[r].node[i].req[1].latency = rounds[r].node[i].lat
      /\ rounds[r].node[i].req[1].status = StatusOf(rounds[r].node[i].lat)

\* two nodes probed side by side have their results in flight at once, one
\* that answered in 50 ms and one that did not answer, each with its own id
C22_Witness ==
  \E r \in DOMAIN rounds :
    /\ rounds[r].nodes = <<1, 2>>
    /\ rounds[r].node[1].pc = "post" /\ rounds[r].node[2].pc = "post"
    /\ rounds[r].node[1].req[1] =
         [node_id |-> 1, latency |-> 50, status |-> "online", token |-> "tok"]
    /\ rounds[r].node[2].req[1] =
         [node_id |-> 2, latency |-> Unreachable, status |-> "offline", token |-> "tok"]


\* C23: a round whose GET /nodes answered an empty list ends through its
\* completion step ('All node tests completed.') with no probe and no
\* submission made.
C23_EmptyListCompletes ==
  \A r \in DOMAIN rounds :
    (rounds[r].nodes = <<>> /\ rounds[r].pc \in {"done", "returned"}) =>
      /\ rounds[r].pc = "done"
      /\ \A i \in 1..MaxNodes : rounds[r].node[i] = NoNode

\* C24: status "offline" is submitted only with the sentinel latency: a
\* probe that was answered before the timeout is never reported offline.
C24_OfflineOnlyUnreachable ==
  \A q \in TestPosts : q.status = "offline" => q.latency = Unreachable

====
